---- MODULE Spec2Model ----
(***************************************************************************)
(* Session persistence and resumption of browser_agent.py: the SQLite      *)
(* SessionStore (create / list / load / save), the transcript codec it     *)
(* uses, the session selector and the conversation loop of BrowserAgent.   *)
(*                                                                         *)
(* Three specifications share the definitions:                             *)
(*   Spec      one BrowserAgent process (restarted any number of times);   *)
(*   SpecDuo   two BrowserAgent processes on the same database file;       *)
(*   SpecStore the SessionStore API called directly, as a unit test does;  *)
(*   SpecCorrupt the same on a table that is also damaged from outside.    *)
(***************************************************************************)
EXTENDS Integers, Sequences, FiniteSets, TLC

VARIABLES
    rows,        \* the sessions table, in insertion (rowid) order
    pc,          \* pc[p]: where process p stands in start_conversation
    session_id,  \* self.session_id of process p ("" is None)
    history,     \* self.history of process p
    sessions,    \* the local `sessions` of _choose_session
    choice,      \* the local `choice` of _choose_session
    command,     \* the local `command` of start_conversation
    printed,     \* the last thing process p printed: a message of the program,
                 \* or the exception of the traceback it died with
    created,     \* rows process p inserted during its current run
    call         \* SpecStore: the last SessionStore call and what it returned

vars == <<rows, pc, session_id, history, sessions, choice, command, printed,
          created, call>>

procVars == <<pc, session_id, history, sessions, choice, command, printed, created>>

----------------------------------------------------------------------------
(* Bounds of the model. *)

\* messages a transcript may reach in the BrowserAgent specifications
MaxTurns == 2

\* the values str(uuid.uuid4()) may take in the SessionStore API specification;
\* the PRIMARY KEY bounds the table by their number
Ids == {"u1", "u2", "u3"}
\* the values it may take in the BrowserAgent specifications
RunIds == {"u1", "u2"}
\* the opaque ModelMessage values
Msgs == {"a", "b"}
\* the instants datetime.now(UTC) may return: second and microsecond
Times == {[sec |-> 0, usec |-> 0], [sec |-> 0, usec |-> 1], [sec |-> 1, usec |-> 0]}
\* the instants it may return in the BrowserAgent specifications
RunTimes == {[sec |-> 0, usec |-> 0], [sec |-> 0, usec |-> 1]}
\* the transcripts the SessionStore API specification saves
Transcripts == {<<>>, <<"a">>, <<"b", "a">>}
\* the processes
Procs == {1, 2}

None == ""

----------------------------------------------------------------------------
(* The transcript codec: to_jsonable_python, json.dumps, json.loads and    *)
(* ModelMessagesTypeAdapter.validate_python.  A payload is a sequence of   *)
(* JSON tokens; "{a}" is the JSON object of message "a".                   *)

\* pydantic_core.to_jsonable_python on one message: the plain dict
JsonableOf(m) == CASE m = "a" -> "{a}" [] m = "b" -> "{b}"

\* a bug: the list is built back to front
to_jsonable_reversed(messages) ==
    [i \in 1..Len(messages) |-> JsonableOf(messages[Len(messages) + 1 - i])]

to_jsonable_python(messages) ==
    [i \in 1..Len(messages) |-> JsonableOf(messages[i])]

RECURSIVE JoinItems(_)
JoinItems(items) ==
    IF Len(items) = 0 THEN <<>>
    ELSE IF Len(items) = 1 THEN <<items[1]>>
    ELSE <<items[1], ",", " ">> \o JoinItems(Tail(items))

\* json.dumps(list, ensure_ascii=False): "[" item ", " item ... "]"
json_dumps(as_python) == <<"[">> \o JoinItems(as_python) \o <<"]">>

IsObject(tok) == tok \in {JsonableOf(m) : m \in Msgs}

\* JSON whitespace is skipped between tokens
RECURSIVE SkipWs(_)
SkipWs(toks) ==
    IF Len(toks) = 0 THEN <<>>
    ELSE IF toks[1] = " " THEN SkipWs(Tail(toks))
    ELSE <<toks[1]>> \o SkipWs(Tail(toks))

\* the elements of an array body: value ("," value)*, or nothing
RECURSIVE ParseItems(_)
ParseItems(toks) ==
    IF Len(toks) = 0 THEN [ok |-> FALSE, value |-> <<>>]
    ELSE IF ~IsObject(toks[1]) THEN [ok |-> FALSE, value |-> <<>>]
    ELSE IF Len(toks) = 1 THEN [ok |-> TRUE, value |-> <<toks[1]>>]
    ELSE IF toks[2] # "," THEN [ok |-> FALSE, value |-> <<>>]
    ELSE LET rest == ParseItems(SubSeq(toks, 3, Len(toks)))
         IN  IF rest.ok THEN [ok |-> TRUE, value |-> <<toks[1]>> \o rest.value]
             ELSE [ok |-> FALSE, value |-> <<>>]

\* json.loads: ok = FALSE is JSONDecodeError; kind tells a list from a dict
json_loads(data) ==
    LET toks == SkipWs(data)
    IN  IF Len(toks) = 0 THEN [ok |-> FALSE, kind |-> "none", value |-> <<>>]
        ELSE IF Len(toks) = 1 /\ IsObject(toks[1])
            THEN [ok |-> TRUE, kind |-> "dict", value |-> <<toks[1]>>]
        ELSE IF toks[1] # "[" \/ toks[Len(toks)] # "]" \/ Len(toks) < 2
            THEN [ok |-> FALSE, kind |-> "none", value |-> <<>>]
        ELSE IF Len(toks) = 2 THEN [ok |-> TRUE, kind |-> "list", value |-> <<>>]
        ELSE LET body == ParseItems(SubSeq(toks, 2, Len(toks) - 1))
             IN  IF body.ok THEN [ok |-> TRUE, kind |-> "list", value |-> body.value]
                 ELSE [ok |-> FALSE, kind |-> "none", value |-> <<>>]

MessageOf(obj) == CHOOSE m \in Msgs : JsonableOf(m) = obj

\* ModelMessagesTypeAdapter.validate_python: a list of message dicts, or
\* ValidationError (ok = FALSE)
validate_python(python_data) ==
    IF python_data.kind = "list"
    THEN [ok |-> TRUE,
          value |-> [i \in 1..Len(python_data.value) |-> MessageOf(python_data.value[i])]]
    ELSE [ok |-> FALSE, value |-> <<>>]

----------------------------------------------------------------------------
(* created_at: datetime.now(UTC).isoformat(), a TEXT column compared byte  *)
(* by byte.  A text is a sequence of character codes ('+' 43, '.' 46,      *)
(* '0' 48); isoformat leaves the fraction out when the microsecond is 0.   *)

isoformat(t) ==
    IF t.usec = 0 THEN <<48 + t.sec, 43>>
    ELSE <<48 + t.sec, 46, 48 + t.usec, 43>>

\* SQLite's BINARY collation (memcmp, the shorter prefix first)
RECURSIVE TextLess(_, _)
TextLess(x, y) ==
    IF Len(y) = 0 THEN FALSE
    ELSE IF Len(x) = 0 THEN TRUE
    ELSE IF x[1] # y[1] THEN x[1] < y[1]
    ELSE TextLess(Tail(x), Tail(y))

----------------------------------------------------------------------------
(* The SessionStore.  Each method opens its own connection and runs one    *)
(* statement in one transaction, so a method's statement is one step.      *)

\* a bug: the table is dropped and created anew at every start
init_db_Recreate(rws) == <<>>

\* _init_db: CREATE TABLE IF NOT EXISTS leaves an existing table as it is
init_db(rws) == rws

HasId(rws, sid) == \E i \in 1..Len(rws) : rws[i].id = sid

\* a bug: the table has no PRIMARY KEY
InsertSession_NoKey(rws, sid, created_at, data) ==
    [ok |-> TRUE,
     rows |-> Append(rws, [id |-> sid, created_at |-> created_at, data |-> data])]

\* INSERT INTO sessions (id, created_at, data): id is the PRIMARY KEY, a
\* duplicate raises sqlite3.IntegrityError and inserts nothing
InsertSession(rws, sid, created_at, data) ==
    IF HasId(rws, sid) THEN [ok |-> FALSE, rows |-> rws]
    ELSE [ok |-> TRUE,
          rows |-> Append(rws, [id |-> sid, created_at |-> created_at, data |-> data])]

\* a bug: the row is inserted with an empty data column
create_session_EmptyData(rws, sid, now, avail) ==
    IF ~avail THEN [ok |-> FALSE, rows |-> rws, sid |-> None, err |-> "OperationalError"]
    ELSE LET ins == InsertSession(rws, sid, isoformat(now), <<>>)
         IN  IF ins.ok THEN [ok |-> TRUE, rows |-> ins.rows, sid |-> sid, err |-> ""]
             ELSE [ok |-> FALSE, rows |-> rws, sid |-> None, err |-> "IntegrityError"]

\* create_session with uuid4() = sid and now() = now; avail = FALSE is a
\* database that cannot be written (sqlite3.OperationalError)
create_session(rws, sid, now, avail) ==
    IF ~avail THEN [ok |-> FALSE, rows |-> rws, sid |-> None, err |-> "OperationalError"]
    ELSE LET ins == InsertSession(rws, sid, isoformat(now), <<"[", "]">>)
         IN  IF ins.ok THEN [ok |-> TRUE, rows |-> ins.rows, sid |-> sid, err |-> ""]
             ELSE [ok |-> FALSE, rows |-> rws, sid |-> None, err |-> "IntegrityError"]

\* a bug: ORDER BY created_at, which is ascending
IsAscending(out) ==
    \A i \in 1..Len(out) : \A j \in 1..Len(out) :
        i < j => ~TextLess(out[j].created_at, out[i].created_at)

\* text order descending: no row is followed by one with a greater created_at
IsDescending(out) ==
    \A i \in 1..Len(out) : \A j \in 1..Len(out) :
        i < j => ~TextLess(out[i].created_at, out[j].created_at)

Orderings(n) == {f \in [1..n -> 1..n] : \A i, j \in 1..n : f[i] = f[j] => i = j}

\* SELECT id, created_at, data FROM sessions ORDER BY created_at DESC: every
\* order of the rows the ORDER BY allows (rows with equal created_at come in
\* any order)
SelectOrdered(rws) ==
    {out \in {[i \in 1..Len(rws) |-> rws[f[i]]] : f \in Orderings(Len(rws))} :
        IsDescending(out)}

\* a bug: len(r["data"]), the length of the text
Turns_OfText(data) == Len(data)

\* len(json.loads(r["data"])), 0 on any exception
Turns(data) ==
    LET v == json_loads(data) IN IF v.ok THEN Len(v.value) ELSE 0

Summary(r) == [id |-> r.id, created_at |-> r.created_at, turns |-> Turns(r.data)]

\* list_sessions: the lists it may return
list_sessions(rws) ==
    {[i \in 1..Len(out) |-> Summary(out[i])] : out \in SelectOrdered(rws)}

\* SELECT data FROM sessions WHERE id = ? ... fetchone()
FetchData(rws, sid) ==
    LET i == CHOOSE k \in 1..Len(rws) :
                 rws[k].id = sid /\ \A j \in 1..(k - 1) : rws[j].id # sid
    IN  rws[i].data

\* a bug: no `if not row`, so row["data"] raises on a missing row
load_messages_NoGuard(rws, sid) ==
    IF ~HasId(rws, sid) THEN [ok |-> FALSE, value |-> <<>>]
    ELSE LET python_data == json_loads(FetchData(rws, sid))
         IN  IF ~python_data.ok THEN [ok |-> FALSE, value |-> <<>>]
             ELSE validate_python(python_data)

\* load_messages: ok = FALSE is the exception json.loads or validate_python
\* raises
load_messages(rws, sid) ==
    IF ~HasId(rws, sid) THEN [ok |-> TRUE, value |-> <<>>]
    ELSE LET python_data == json_loads(FetchData(rws, sid))
         IN  IF ~python_data.ok THEN [ok |-> FALSE, value |-> <<>>]
             ELSE validate_python(python_data)

\* a bug: the payload is written after the old one instead of replacing it
UpdateData_Concat(rws, payload, sid) ==
    [i \in 1..Len(rws) |->
        IF rws[i].id = sid THEN [rws[i] EXCEPT !.data = @ \o payload] ELSE rws[i]]

\* a bug: UPDATE sessions SET data = ? with no WHERE
UpdateData_NoWhere(rws, payload, sid) ==
    [i \in 1..Len(rws) |-> [rws[i] EXCEPT !.data = payload]]

\* UPDATE sessions SET data = ? WHERE id = ?
UpdateData(rws, payload, sid) ==
    [i \in 1..Len(rws) |->
        IF rws[i].id = sid THEN [rws[i] EXCEPT !.data = payload] ELSE rws[i]]

\* a bug: the transcript is saved without the turn's new message
save_messages_stale(rws, sid, messages, avail) ==
    LET old == SubSeq(messages, 1, Len(messages) - 1)
        payload == json_dumps(to_jsonable_python(old))
    IN  IF ~avail THEN [ok |-> FALSE, rows |-> rws]
        ELSE [ok |-> TRUE, rows |-> UpdateData(rws, payload, sid)]

\* save_messages; avail = FALSE is a database that cannot be written
save_messages(rws, sid, messages, avail) ==
    LET payload == json_dumps(to_jsonable_python(messages))
    IN  IF ~avail THEN [ok |-> FALSE, rows |-> rws]
        ELSE [ok |-> TRUE, rows |-> UpdateData(rws, payload, sid)]

----------------------------------------------------------------------------
(* SpecStore: the SessionStore methods called directly, on a database     *)
(* that can be written.                                                    *)

NoCall == [op |-> "none", id |-> None, arg |-> <<>>, ok |-> TRUE,
           msgs |-> <<>>, list |-> <<>>]

ApiCreate ==
    /\ \E sid \in Ids, now \in Times :
         LET r == create_session(rows, sid, now, TRUE)
         IN  /\ rows' = r.rows
             /\ call' = [NoCall EXCEPT !.op = "create", !.id = r.sid, !.ok = r.ok]
    /\ UNCHANGED procVars

ApiList ==
    /\ \E out \in list_sessions(rows) :
         call' = [NoCall EXCEPT !.op = "list", !.list = out]
    /\ UNCHANGED <<rows, procVars>>

ApiLoad ==
    /\ \E sid \in Ids :
         LET r == load_messages(rows, sid)
         IN  call' = [NoCall EXCEPT !.op = "load", !.id = sid, !.ok = r.ok,
                                    !.msgs = r.value]
    /\ UNCHANGED <<rows, procVars>>

ApiSave ==
    /\ \E sid \in Ids, messages \in Transcripts :
         LET r == save_messages(rows, sid, messages, TRUE)
         IN  /\ rows' = r.rows
             /\ call' = [NoCall EXCEPT !.op = "save", !.id = sid, !.arg = messages,
                                       !.ok = r.ok]
    /\ UNCHANGED procVars

Init ==
    /\ rows = init_db(<<>>)
    /\ pc = [p \in Procs |-> "start"]
    /\ session_id = [p \in Procs |-> None]
    /\ history = [p \in Procs |-> <<>>]
    /\ sessions = [p \in Procs |-> <<>>]
    /\ choice = [p \in Procs |-> ""]
    /\ command = [p \in Procs |-> ""]
    /\ printed = [p \in Procs |-> ""]
    /\ created = [p \in Procs |-> 0]
    /\ call = NoCall

NextStore == ApiCreate \/ ApiList \/ ApiLoad \/ ApiSave

SpecStore == Init /\ [][NextStore]_vars

----------------------------------------------------------------------------
(* SpecCorrupt: the SessionStore methods on a table whose data column is   *)
(* also written from outside the program with text that is not JSON.       *)

\* texts json.loads rejects: empty, whitespace only, a cut-off array
CorruptPayloads == {<<>>, <<" ">>, <<"[", "{a}">>}

\* the data of one row is replaced from outside the program
Corrupt ==
    /\ \E i \in 1..Len(rows), payload \in CorruptPayloads :
         /\ rows' = [rows EXCEPT ![i].data = payload]
         /\ call' = [NoCall EXCEPT !.op = "corrupt", !.id = rows[i].id]
    /\ UNCHANGED procVars

\* create_session on the smaller pools of ids and instants
ApiCreateRun ==
    /\ \E sid \in RunIds, now \in RunTimes :
         LET r == create_session(rows, sid, now, TRUE)
         IN  /\ rows' = r.rows
             /\ call' = [NoCall EXCEPT !.op = "create", !.id = r.sid, !.ok = r.ok]
    /\ UNCHANGED procVars

NextCorrupt == ApiCreateRun \/ ApiList \/ ApiLoad \/ ApiSave \/ Corrupt

SpecCorrupt == Init /\ [][NextCorrupt]_vars

----------------------------------------------------------------------------
(* Lines of input and the str methods the program applies to them.         *)

\* input() raising EOFError or KeyboardInterrupt
EOF == "<EOF>"

\* the lines input() may return to the selector
SelectorLines == {"n", "N", "0", "1", "2", "3", "9", " 2 ", "", "x", "²"}

\* the lines input() may return to the conversation loop
LoopLines == {"exit", "QUIT", " quit ", "", "  ", "hi"}

\* str.strip()
strip(s) ==
    CASE s = " 2 " -> "2"
      [] s = " quit " -> "quit"
      [] s = "  " -> ""
      [] OTHER -> s

\* a bug: the command is compared as typed
lower_Identity(s) == s

\* str.lower()
lower(s) ==
    CASE s = "N" -> "n"
      [] s = "QUIT" -> "quit"
      [] OTHER -> s

\* str.isdigit(): true of the superscript two as well
isdigit(s) == s \in {"0", "1", "2", "3", "9", "²"}

\* int(): ok = FALSE is ValueError, which the superscript two raises
int(s) ==
    CASE s = "0" -> [ok |-> TRUE, value |-> 0]
      [] s = "1" -> [ok |-> TRUE, value |-> 1]
      [] s = "2" -> [ok |-> TRUE, value |-> 2]
      [] s = "3" -> [ok |-> TRUE, value |-> 3]
      [] s = "9" -> [ok |-> TRUE, value |-> 9]
      [] OTHER -> [ok |-> FALSE, value |-> 0]

----------------------------------------------------------------------------
(* BrowserAgent.  pc[p] is "start" (constructed, _choose_session not yet   *)
(* entered), "creating" (list_sessions returned nothing), "select" (at the *)
(* selector's input()), "await" (at input("you: ")), "running" (in         *)
(* agent.run), "persisting" (agent.run returned), "ended" (the loop was    *)
(* left by break) or "crashed" (an exception left start_conversation and   *)
(* ended the process).                                                     *)

\* the locals of _choose_session, dropped once the loop reads a line
DropLocals(p) ==
    /\ sessions' = [sessions EXCEPT ![p] = <<>>]
    /\ choice' = [choice EXCEPT ![p] = ""]

\* a bug: the test of self.session_id is inverted
AfterChoose_Inverted(sid) == IF sid # None THEN "creating" ELSE "await"

\* start_conversation after _choose_session returned: `if not
\* self.session_id` sends it to create_session
AfterChoose(sid) == IF sid = None THEN "creating" ELSE "await"

\* a bug: sessions[int(choice) - 2], which Python wraps to the last entry
Chosen_OffByOne(listed, n) == listed[IF n = 1 THEN Len(listed) ELSE n - 1].id

\* sessions[int(choice) - 1]["id"], the list counted from 1 here
Chosen(listed, n) == listed[n].id

\* _choose_session up to its first branch: sessions = list_sessions()
ListSessions(p) ==
    /\ pc[p] = "start"
    /\ \E out \in list_sessions(rows) :
         /\ sessions' = [sessions EXCEPT ![p] = out]
         /\ pc' = [pc EXCEPT ![p] = IF Len(out) = 0 THEN "creating" ELSE "select"]
         /\ printed' = [printed EXCEPT ![p] = IF Len(out) = 0 THEN "" ELSE "menu"]
    /\ UNCHANGED <<rows, session_id, history, choice, command, created, call>>

\* self.session_id = self.store.create_session(), print, return
CreateAndReturn(p) ==
    \E sid \in RunIds, now \in RunTimes, avail \in BOOLEAN :
        LET r == create_session(rows, sid, now, avail)
        IN  /\ rows' = r.rows
            /\ IF r.ok
               THEN /\ session_id' = [session_id EXCEPT ![p] = r.sid]
                    /\ created' = [created EXCEPT ![p] = @ + 1]
                    /\ printed' = [printed EXCEPT ![p] = "new"]
                    /\ pc' = [pc EXCEPT ![p] = AfterChoose(r.sid)]
               ELSE /\ pc' = [pc EXCEPT ![p] = "crashed"]
                    /\ printed' = [printed EXCEPT ![p] = r.err]
                    /\ UNCHANGED <<session_id, created>>

\* _choose_session: `if not sessions`: create a session and return
CreateFirst(p) ==
    /\ pc[p] = "creating"
    /\ CreateAndReturn(p)
    /\ UNCHANGED <<history, sessions, choice, command, call>>

\* the selector's loop body on the 'new' signal
SelectNew(p) ==
    /\ pc[p] = "select"
    /\ \E line \in SelectorLines :
         /\ lower(strip(line)) = "n"
         /\ choice' = [choice EXCEPT ![p] = strip(line)]
    /\ CreateAndReturn(p)
    /\ UNCHANGED <<history, sessions, command, call>>

\* the selector's loop body on any other line
Select(p) ==
    /\ pc[p] = "select"
    /\ \E line \in SelectorLines :
         LET c == strip(line)
         IN  /\ lower(c) # "n"
             /\ choice' = [choice EXCEPT ![p] = c]
             /\ IF isdigit(c)
                THEN IF ~int(c).ok
                     THEN \* int(choice) raises ValueError
                          /\ pc' = [pc EXCEPT ![p] = "crashed"]
                          /\ printed' = [printed EXCEPT ![p] = "ValueError"]
                          /\ UNCHANGED <<session_id, history>>
                     ELSE IF 1 <= int(c).value /\ int(c).value <= Len(sessions[p])
                     THEN LET id == Chosen(sessions[p], int(c).value)
                              r == load_messages(rows, id)
                          IN  /\ session_id' = [session_id EXCEPT ![p] = id]
                              /\ IF r.ok
                                 THEN /\ history' = [history EXCEPT ![p] = r.value]
                                      /\ printed' = [printed EXCEPT ![p] = "resumed"]
                                      /\ pc' = [pc EXCEPT ![p] = AfterChoose(id)]
                                 ELSE /\ pc' = [pc EXCEPT ![p] = "crashed"]
                                      /\ printed' = [printed EXCEPT ![p] = "DecodeError"]
                                      /\ UNCHANGED history
                     ELSE /\ printed' = [printed EXCEPT ![p] = "invalid"]
                          /\ UNCHANGED <<pc, session_id, history>>
                ELSE /\ printed' = [printed EXCEPT ![p] = "invalid"]
                     /\ UNCHANGED <<pc, session_id, history>>
    /\ UNCHANGED <<rows, sessions, command, created, call>>

\* input() in the selector raises EOFError or KeyboardInterrupt: not caught
SelectEOF(p) ==
    /\ pc[p] = "select"
    /\ choice' = [choice EXCEPT ![p] = EOF]
    /\ pc' = [pc EXCEPT ![p] = "crashed"]
    /\ printed' = [printed EXCEPT ![p] = "EOFError"]
    /\ UNCHANGED <<rows, session_id, history, sessions, command, created, call>>

\* the loop's input("you: ") returns a line
ReadCommand(p) ==
    /\ pc[p] = "await"
    /\ \E line \in LoopLines :
         LET c == strip(line)
         IN  /\ command' = [command EXCEPT ![p] = c]
             /\ IF lower(c) \in {"exit", "quit"}
                THEN /\ printed' = [printed EXCEPT ![p] = "goodbye"]
                     /\ pc' = [pc EXCEPT ![p] = "ended"]
                ELSE /\ Len(history[p]) < MaxTurns
                     /\ pc' = [pc EXCEPT ![p] = "running"]
                     /\ UNCHANGED printed
    /\ DropLocals(p)
    /\ UNCHANGED <<rows, session_id, history, created, call>>

\* the loop's input("you: ") raises EOFError or KeyboardInterrupt
ReadEOF(p) ==
    /\ pc[p] = "await"
    /\ printed' = [printed EXCEPT ![p] = "exiting"]
    /\ pc' = [pc EXCEPT ![p] = "ended"]
    /\ DropLocals(p)
    /\ UNCHANGED <<rows, session_id, history, command, created, call>>

\* result.all_messages(): the history given, then the turn's new message
all_messages(message_history, m) == Append(message_history, m)

\* agent.run returns: self.history = result.all_messages()
AgentReturn(p) ==
    /\ pc[p] = "running"
    /\ \E m \in Msgs :
         history' = [history EXCEPT ![p] = all_messages(history[p], m)]
    /\ pc' = [pc EXCEPT ![p] = "persisting"]
    /\ UNCHANGED <<rows, session_id, sessions, choice, command, printed, created, call>>

\* agent.run raises: nothing catches it
AgentFail(p) ==
    /\ pc[p] = "running"
    /\ pc' = [pc EXCEPT ![p] = "crashed"]
    /\ printed' = [printed EXCEPT ![p] = "AgentError"]
    /\ UNCHANGED <<rows, session_id, history, sessions, choice, command, created, call>>

\* a bug: the reply is printed before save_messages is called
Persist_PrintFirst(p) ==
    /\ pc[p] = "persisting"
    /\ printed' = [printed EXCEPT ![p] = "agent"]
    /\ \E avail \in BOOLEAN :
         LET r == save_messages(rows, session_id[p], history[p], avail)
         IN  /\ rows' = r.rows
             /\ pc' = [pc EXCEPT ![p] = IF r.ok THEN "await" ELSE "crashed"]
    /\ UNCHANGED <<session_id, history, sessions, choice, command, created, call>>

\* save_messages(self.session_id, self.history), then print the reply
Persist(p) ==
    /\ pc[p] = "persisting"
    /\ \E avail \in BOOLEAN :
         LET r == save_messages(rows, session_id[p], history[p], avail)
         IN  /\ rows' = r.rows
             /\ IF r.ok
                THEN /\ printed' = [printed EXCEPT ![p] = "agent"]
                     /\ pc' = [pc EXCEPT ![p] = "await"]
                ELSE /\ pc' = [pc EXCEPT ![p] = "crashed"]
                     /\ printed' = [printed EXCEPT ![p] = "OperationalError"]
    /\ UNCHANGED <<session_id, history, sessions, choice, command, created, call>>

\* the program is started again: BrowserAgent() on the same database file
Restart(p) ==
    /\ pc[p] \in {"ended", "crashed"}
    /\ rows' = init_db(rows)
    /\ pc' = [pc EXCEPT ![p] = "start"]
    /\ session_id' = [session_id EXCEPT ![p] = None]
    /\ history' = [history EXCEPT ![p] = <<>>]
    /\ sessions' = [sessions EXCEPT ![p] = <<>>]
    /\ choice' = [choice EXCEPT ![p] = ""]
    /\ command' = [command EXCEPT ![p] = ""]
    /\ printed' = [printed EXCEPT ![p] = ""]
    /\ created' = [created EXCEPT ![p] = 0]
    /\ UNCHANGED call

Run(p) ==
    \/ ListSessions(p)
    \/ CreateFirst(p)
    \/ SelectNew(p)
    \/ Select(p)
    \/ SelectEOF(p)
    \/ ReadCommand(p)
    \/ ReadEOF(p)
    \/ AgentReturn(p)
    \/ AgentFail(p)
    \/ Persist(p)

\* one process, started again whenever it has exited
Next == Run(1) \/ Restart(1)

Spec == Init /\ [][Next]_vars

\* two processes started on a new database file, each run once
NextDuo == \E p \in Procs : Run(p)

SpecDuo == Init /\ [][NextDuo]_vars

----------------------------------------------------------------------------
(* The claims. *)

Front(seq) == SubSeq(seq, 1, Len(seq) - 1)

Loaded(sid, messages) == load_messages(rows, sid) = [ok |-> TRUE, value |-> messages]

\* C1: with one process, whenever the loop awaits input or has ended, and
\* while the agent runs, the stored transcript of the active session is the
\* in-memory history; once the agent has returned and until the save, it is
\* the history of the last completed turn (the in-memory one less the turn's
\* message), never anything else.
C1_DurableMatchesMemory ==
    /\ pc[1] \in {"await", "running", "ended"} => Loaded(session_id[1], history[1])
    /\ pc[1] = "persisting" => Loaded(session_id[1], Front(history[1]))

C1_Witness ==
    /\ pc[1] = "await"
    /\ printed[1] = "agent"
    /\ Len(history[1]) = 2
    /\ Len(rows) = 2

\* C2: right after save(id, T) on an id the store holds, load(id) returns
\* exactly T, whatever the row held before.
C2_ResumeFidelity ==
    (call.op = "save" /\ HasId(rows, call.id)) => Loaded(call.id, call.arg)

C2_Witness ==
    /\ call.op = "save"
    /\ HasId(rows, call.id)
    /\ call.arg = <<"b", "a">>
    /\ Len(rows) = 3

LoadedNext(sid, messages) ==
    load_messages(rows', sid) = [ok |-> TRUE, value |-> messages]

\* both processes hold the same session and have each saved a turn
BothSaved(p, q) ==
    /\ p # q
    /\ session_id[p] # None
    /\ session_id[p] = session_id[q]
    /\ pc[p] = "await" /\ printed[p] = "agent"
    /\ pc[q] = "await" /\ printed[q] = "agent"

C3_OneOfTheTwo ==
    \A p, q \in Procs :
        BothSaved(p, q) =>
            Loaded(session_id[p], history[p]) \/ Loaded(session_id[p], history[q])

C3_CommitterWins ==
    \A p \in Procs :
        (pc[p] = "persisting" /\ pc'[p] = "await") =>
            LoadedNext(session_id[p], history[p])

\* C3: when two processes save to the same session, in any interleaving, the
\* stored transcript once both have saved is exactly the one or the other,
\* and right after each save commits it is exactly the committer's: the
\* write that commits last wins whole.
C3_LastWriterWins == []C3_OneOfTheTwo /\ [][C3_CommitterWins]_vars

C3_Witness ==
    /\ BothSaved(1, 2)
    /\ history[1] # history[2]
    /\ Loaded(session_id[1], history[2])

\* the agent invocation of process 1 fails in this step
AgentFailed == pc[1] = "running" /\ pc'[1] \notin {"running", "persisting"}

\* C4: when the agent invocation fails, the stored and the in-memory
\* transcript are unchanged and the loop is back at AWAITING_INPUT.
C4_AgentFailureRecovered ==
    [][AgentFailed =>
          /\ rows' = rows
          /\ history'[1] = history[1]
          /\ pc'[1] = "await"]_vars

\* the save of process 1 fails in this step: the loop leaves PERSISTING with
\* the stored transcript not the in-memory one
SaveFailed ==
    /\ pc[1] = "persisting"
    /\ pc'[1] # "persisting"
    /\ ~LoadedNext(session_id[1], history[1])

\* C5: when the save fails, the reply is still displayed and the loop is back
\* at AWAITING_INPUT with the in-memory transcript kept.
C5_SaveFailureRecovered ==
    [][SaveFailed =>
          /\ printed'[1] = "agent"
          /\ pc'[1] = "await"
          /\ history'[1] = history[1]]_vars

\* the line is a decimal number from 1 to the number of listed sessions
InRange(c, listed) ==
    /\ c \in {"0", "1", "2", "3", "9"}
    /\ 1 <= int(c).value
    /\ int(c).value <= Len(listed)

\* C6: in the selector, every input that is neither the 'new' signal nor a
\* number in range (end-of-input included) leads to a re-prompt: no crash, no
\* session id set, no session created.
C6_InvalidSelectionReprompts ==
    [][(pc[1] = "select" /\ lower(choice'[1]) # "n"
            /\ ~InRange(choice'[1], sessions[1])) =>
          /\ pc'[1] = "select"
          /\ session_id'[1] = session_id[1]
          /\ history'[1] = history[1]
          /\ rows' = rows]_vars

\* C7: a numeric choice i in 1..k resolves to the i-th listed session (the
\* list most recent first), creates no row and loads that session's stored
\* transcript into the history.
C7_NumericChoiceResumes ==
    [][\A i \in 1..Len(sessions[1]) :
          (pc[1] = "select" /\ int(choice'[1]).ok /\ int(choice'[1]).value = i) =>
              /\ IsDescending(sessions[1])
              /\ pc'[1] = "await"
              /\ session_id'[1] = sessions[1][i].id
              /\ rows' = rows
              /\ created'[1] = created[1]
              /\ load_messages(rows, sessions[1][i].id)
                     = [ok |-> TRUE, value |-> history'[1]]]_vars

C7_Witness ==
    /\ pc[1] = "await"
    /\ printed[1] = "resumed"
    /\ choice[1] = "2"
    /\ Len(sessions[1]) = 2
    /\ session_id[1] = sessions[1][2].id
    /\ Len(history[1]) = 2

\* the run takes the path that creates a session: nothing was listed, or the
\* line read is the 'new' signal
NewPath ==
    \/ pc[1] = "creating" /\ Len(sessions[1]) = 0
    \/ pc[1] = "select" /\ lower(choice'[1]) = "n"

Grows == Len(rows') > Len(rows)

\* C8: a row is created only on the path that creates a session (no session
\* listed at startup, then without reading a line, or the 'new' signal), one
\* row and the first of the run, with an empty history; that path creates the
\* row unless create_session raises; no other step of a run creates a row.
C8_CreatesOnlyWhenNew ==
    [][/\ Grows =>
            /\ NewPath
            /\ Len(rows') = Len(rows) + 1
            /\ created[1] = 0 /\ created'[1] = 1
            /\ session_id'[1] = rows'[Len(rows')].id
            /\ history'[1] = <<>>
            /\ pc'[1] = "await"
       /\ (NewPath /\ pc'[1] \notin {pc[1], "crashed"}) => Grows
       /\ pc[1] = "creating" => choice'[1] = choice[1]]_vars

C8_Witness ==
    /\ pc[1] = "await"
    /\ created[1] = 1
    /\ choice[1] = "N"
    /\ Len(rows) = 2
    /\ history[1] = <<>>

UniqueIds == \A i, j \in 1..Len(rows) : rows[i].id = rows[j].id => i = j

\* a create that returns yields an id no row had and adds one row with it; a
\* create that fails leaves the table as it was
CreateIsFresh ==
    call'.op = "create" =>
        IF call'.ok
        THEN /\ ~HasId(rows, call'.id)
             /\ Len(rows') = Len(rows) + 1
             /\ SubSeq(rows', 1, Len(rows)) = rows
             /\ rows'[Len(rows')].id = call'.id
        ELSE rows' = rows

\* C9: no two rows have the same session id, every create that returns
\* yields an id no row had, and a create whose id exists fails and changes
\* nothing.
C9_IdsUnique == []UniqueIds /\ [][CreateIsFresh]_vars

C9_Witness ==
    /\ call.op = "create"
    /\ ~call.ok
    /\ Len(rows) = 2

\* the instant a created_at text was formatted from
InstantOf(text) == CHOOSE t \in Times : isoformat(t) = text

Earlier(t, u) == t.sec < u.sec \/ (t.sec = u.sec /\ t.usec < u.usec)

\* out holds one summary per row, and a session created later comes first
ListsAllNewestFirst(out) ==
    /\ Len(out) = Len(rows)
    /\ \A i \in 1..Len(rows) :
         Cardinality({k \in 1..Len(out) : out[k] = Summary(rows[i])}) = 1
    /\ \A i, j \in 1..Len(out) :
         Earlier(InstantOf(out[i].created_at), InstantOf(out[j].created_at)) => j < i

\* C10: list() returns one summary per stored row, most recently created
\* first, for every content of the store.
C10_ListNewestFirst ==
    /\ \A out \in list_sessions(rows) : ListsAllNewestFirst(out)
    /\ call.op = "list" => ListsAllNewestFirst(call.list)

C10_Witness ==
    /\ call.op = "list"
    /\ Len(call.list) = 3
    /\ Earlier(InstantOf(call.list[3].created_at), InstantOf(call.list[2].created_at))
    /\ Earlier(InstantOf(call.list[2].created_at), InstantOf(call.list[1].created_at))
    /\ rows[1].id = call.list[2].id
    /\ call.list[1].turns = 2


\* the payload save_messages writes for a transcript
Encoded(messages) == json_dumps(to_jsonable_python(messages))

\* out holds one summary per row: 0 turns for a row whose data does not
\* decode, the number of messages for a row holding a saved transcript
CountsIsolateCorruption(out) ==
    /\ Len(out) = Len(rows)
    /\ \A i \in 1..Len(rows) :
         /\ Cardinality({k \in 1..Len(out) : out[k].id = rows[i].id}) = 1
         /\ \A k \in 1..Len(out) :
              out[k].id = rows[i].id =>
                  /\ rows[i].data \in CorruptPayloads => out[k].turns = 0
                  /\ \A t \in Transcripts :
                       rows[i].data = Encoded(t) => out[k].turns = Len(t)

C12_EmptyDataLoadsEmpty ==
    (call.op = "load" /\ HasId(rows, call.id)
        /\ FetchData(rows, call.id) \in {<<>>, <<" ">>}) =>
            (call.ok /\ call.msgs = <<>>)


\* C13: load(id) for an id with no row returns the empty transcript, raises
\* no error and leaves the store unchanged.
C13_MissingIdLoadsEmpty ==
    [][(call'.op = "load" /\ ~HasId(rows, call'.id)) =>
          /\ call'.ok
          /\ call'.msgs = <<>>
          /\ rows' = rows]_vars

C13_Witness ==
    /\ call.op = "load"
    /\ ~HasId(rows, call.id)
    /\ call.ok
    /\ Len(rows) = 2

\* C14: save(id, T) changes nothing but the data of the row keyed by id: the
\* rows, their ids and created_at and every other row's data stay, and with
\* no such row the whole store stays and no error is raised.
C14_SaveFrame ==
    [][call'.op = "save" =>
          /\ call'.ok
          /\ Len(rows') = Len(rows)
          /\ \A i \in 1..Len(rows) :
               /\ rows'[i].id = rows[i].id
               /\ rows'[i].created_at = rows[i].created_at
               /\ rows[i].id # call'.id => rows'[i].data = rows[i].data
          /\ ~HasId(rows, call'.id) => rows' = rows]_vars

C14_Witness ==
    /\ call.op = "save"
    /\ call.arg = <<"b", "a">>
    /\ Len(rows) = 3
    /\ \E i, j \in 1..3 :
         /\ rows[i].id = call.id
         /\ rows[i].data = Encoded(<<"b", "a">>)
         /\ rows[j].data = Encoded(<<"a">>)


\* listed holds one summary per stored row, with the row's id and created_at
\* and the number of messages of its stored transcript
ListedMatchesStore(listed) ==
    /\ Len(listed) = Len(rows)
    /\ \A i \in 1..Len(rows) :
         Cardinality({k \in 1..Len(listed) :
             /\ listed[k].id = rows[i].id
             /\ listed[k].created_at = rows[i].created_at
             /\ listed[k].turns = Len(load_messages(rows, rows[i].id).value)}) = 1

\* C15: a restart loses the in-memory state and keeps the table as the last
\* committed create and save left it; the list shown after it has one summary
\* per stored session with its number of messages, and selecting a session
\* yields its stored transcript.
C15_DurableAcrossRestart ==
    [][/\ (pc[1] \in {"ended", "crashed"} /\ pc'[1] = "start") =>
            /\ rows' = rows
            /\ history'[1] = <<>>
            /\ session_id'[1] = None
       /\ (pc[1] = "start" /\ pc'[1] # "start") =>
            /\ rows' = rows
            /\ ListedMatchesStore(sessions'[1])
       /\ (pc[1] = "select" /\ pc'[1] = "await" /\ printed'[1] = "resumed") =>
            /\ rows' = rows
            /\ Loaded(session_id'[1], history'[1])]_vars

C15_Witness ==
    /\ Len(rows) = 1
    /\ pc[1] = "await"
    /\ printed[1] = "resumed"
    /\ created[1] = 0
    /\ sessions[1] = <<[id |-> rows[1].id, created_at |-> rows[1].created_at, turns |-> 1]>>
    /\ session_id[1] = rows[1].id
    /\ history[1] = <<"a">>


\* the stripped commands of LoopLines that are 'exit' or 'quit' in some case
ExitWords == {"exit", "quit", "QUIT"}

\* C16: a command that is 'exit' or 'quit' in any letter case, or end of
\* input at the loop's prompt, ends the loop with no agent call and no save;
\* the loop is ended only from its prompt, and once ended the run does
\* nothing more: the table and the history stay as the last completed turn
\* left them until the program is started again.
C16_ExitEndsRun ==
    [][/\ (pc[1] = "await" /\ command'[1] \in ExitWords) =>
            /\ pc'[1] = "ended"
            /\ printed'[1] = "goodbye"
            /\ rows' = rows
            /\ history' = history
       /\ (pc[1] = "await" /\ printed'[1] = "exiting") =>
            /\ pc'[1] = "ended"
            /\ rows' = rows
            /\ history' = history
       /\ (pc'[1] = "ended" /\ pc[1] # "ended") => pc[1] = "await"
       /\ pc[1] = "ended" =>
            /\ pc'[1] = "start"
            /\ rows' = rows
            /\ created'[1] = 0]_vars

C16_Witness ==
    /\ pc[1] = "ended"
    /\ command[1] = "QUIT"
    /\ printed[1] = "goodbye"
    /\ Loaded(session_id[1], history[1])
    /\ Len(history[1]) = 1

\* the transcripts a run can build
AllTranscripts == UNION {[1..n -> Msgs] : n \in 0..MaxTurns}

\* every row holds the whole encoding of some transcript
ValidRows(rws) ==
    \A i \in 1..Len(rws) : \E messages \in AllTranscripts : rws[i].data = Encoded(messages)

\* C17: in every reachable state, failed creates and saves included, the
\* data of every row is the complete encoding of a sequence of messages,
\* never a part of one; a row just created holds the encoding of the empty
\* sequence and counts 0 turns.
C17_DataAlwaysValid ==
    /\ [](ValidRows(rows))
    /\ [][Grows =>
            /\ Len(rows') = Len(rows) + 1
            /\ rows'[Len(rows')].data = Encoded(<<>>)
            /\ Turns(rows'[Len(rows')].data) = 0
            /\ load_messages(rows', rows'[Len(rows')].id) = [ok |-> TRUE, value |-> <<>>]]_vars

C17_Witness ==
    /\ Len(rows) = 2
    /\ rows[1].data = Encoded(<<"a", "b">>)
    /\ rows[2].data = Encoded(<<>>)
    /\ pc[1] = "crashed"
    /\ printed[1] = "OperationalError"

\* C18: within a turn the agent's return replaces the history by the
\* transcript it returned and changes nothing else; the next step is the one
\* save of that transcript; the reply is printed, and the next line read,
\* only once that save has committed, and a save that fails prints no reply.
C18_TurnOrdering ==
    [][/\ pc[1] = "running" =>
            /\ pc'[1] \in {"persisting", "crashed"}
            /\ rows' = rows
            /\ printed'[1] # "agent" \/ printed[1] = "agent"
            /\ pc'[1] = "persisting" => Front(history'[1]) = history[1]
       /\ pc[1] = "persisting" =>
            /\ pc'[1] \in {"await", "crashed"}
            /\ history' = history
            /\ pc'[1] = "await" =>
                 /\ printed'[1] = "agent"
                 /\ LoadedNext(session_id[1], history[1])
            /\ pc'[1] = "crashed" =>
                 /\ printed'[1] # "agent"
                 /\ rows' = rows
       /\ (rows' # rows /\ ~Grows) => pc[1] = "persisting"
       /\ (printed'[1] = "agent" /\ pc[1] # "persisting") => printed[1] = "agent"]_vars

C18_Witness ==
    /\ pc[1] = "await"
    /\ printed[1] = "agent"
    /\ history[1] = <<"b", "a">>
    /\ Loaded(session_id[1], <<"b", "a">>)

IsPrefix(old, new) == Len(old) <= Len(new) /\ SubSeq(new, 1, Len(old)) = old

\* the transcript stored in the i-th row
Stored(rws, i) == load_messages(rws, rws[i].id).value

\* C19: every change of a session's stored transcript replaces it by an
\* extension of it, also when two processes hold the same session and take
\* turns one after the other.
C19_AppendOnly ==
    [][\A i \in 1..Len(rows) : IsPrefix(Stored(rows, i), Stored(rows', i))]_vars

\* C20: the agent is run only with a command that is not empty and is not an
\* exit word, and with the history as it was when the line was read.
C20_NoEmptyInvocation ==
    [][(pc[1] = "await" /\ pc'[1] = "running") =>
            /\ command'[1] # ""
            /\ command'[1] \notin ExitWords
            /\ history' = history]_vars

====
